---- MODULE Spec2Model ----
(***************************************************************************)
(* Ariadne: the execute/fallback controller of src/ariadne/router.py       *)
(* (simulate and _execute_simulation), run by several concurrent callers   *)
(* against one process-wide resource manager.                              *)
(***************************************************************************)
EXTENDS Integers, Sequences, FiniteSets, TLC

\* ------------------------------------------------------------------
\* Bounds of the model

MaxQubits == 1
MaxShots == 1
Ceiling == 4

\* Qubit count of a circuit that no backend can hold.
HugeQubits == 6

Callers == {"c1", "c2"}

\* Qubit counts of the circuits submitted.
QubitCounts == 0..MaxQubits \cup {HugeQubits}

\* Longest circuit handed to the feature extractor.
MaxGates == 2

\* Largest priority of a configuration source.
MaxPriority == 1

\* Largest max_size and max_memory_bytes of a MemoryCacheBackend, and the
\* last tick of the clock.
MaxEntries == 2

MaxMemoryBytes == 3

MaxTime == 2

\* ------------------------------------------------------------------
\* Backend kinds

\* Kinds the dispatcher of _execute_simulation has a branch for.
DispatchedKinds ==
    {"stim", "qiskit", "tensor_network", "jax_metal", "ddsim", "mps", "cuda"}

\* Members of BackendType; the cloud kinds have no branch in the dispatcher.
BackendType == DispatchedKinds \cup {"aws_braket", "azure_quantum"}

\* Values of the caller's `backend` argument: None, a known kind, or a
\* string that is no member of BackendType.
Overrides == BackendType \cup {"none", "bogus"}

\* ------------------------------------------------------------------
\* Values

\* Scores and confidences are rationals <<numerator, denominator>>.
NoDecision ==
    [recommended_backend |-> "none", confidence_score |-> <<0, 1>>,
     alternatives |-> <<>>, forced |-> FALSE]

NoTicket == [owner |-> "none", backend |-> "none", mem |-> 0]

NoExc == [type |-> "none", backend |-> "none", parts |-> {}]

NoReason == [backend_name |-> "none", parts |-> {}]

NoCounts == [producer |-> "none", keys |-> {}, total |-> 0]

NoResult ==
    [counts |-> NoCounts, backend_used |-> "none",
     routing_decision |-> NoDecision, shots |-> 0,
     fallback_reason |-> NoReason, warnings |-> {}]

\* ------------------------------------------------------------------
\* Resource manager (ariadne.core)

RECURSIVE SumMem(_)
SumMem(S) ==
    IF S = {} THEN 0
    ELSE LET t == CHOOSE x \in S : TRUE IN t.mem + SumMem(S \ {t})

RECURSIVE Pow2(_)
Pow2(n) == IF n <= 0 THEN 1 ELSE 2 * Pow2(n - 1)

BondDim == 2

\* Per-kind cost model of the admission controller.
Estimate(kind, n) ==
    IF kind = "stim" THEN n * n
    ELSE IF kind \in {"mps", "tensor_network"} THEN n * BondDim * BondDim
    ELSE Pow2(n)

\* check_circuit_feasibility(circuit, backend): the estimate fits into what
\* the outstanding reservations leave of the ceiling.
CanHandle(led, kind, n) == SumMem(led) + Estimate(kind, n) <= Ceiling

\* reserve_resources commits the estimate unless that exceeds the ceiling.
CanReserve(led, kind, n) == SumMem(led) + Estimate(kind, n) <= Ceiling

MakeTicket(c, kind, n) == [owner |-> c, backend |-> kind, mem |-> Estimate(kind, n)]

\* release_resources(ticket): drops the ticket when it is outstanding.
ReleaseTicket(led, t) == led \ {t}

\* ------------------------------------------------------------------
\* State

VARIABLES
    pc,                 \* position of each caller's simulate call
    num_qubits,         \* circuit.num_qubits of the call
    shots,              \* shots argument
    override,           \* backend argument ("none" for None)
    routing_decision,   \* RoutingDecision handed to _execute_simulation
    backend,            \* local `backend` / `backend_name`
    reserved_resources, \* local `reserved_resources`
    exc,                \* exception caught at line 309
    fallback_reason,    \* local `fallback_reason`
    warnings_list,      \* local `warnings_list`
    counts,             \* local `counts`
    result,             \* SimulationResult returned
    error,              \* exception raised out of simulate
    log,                \* events of the call, in order
    ledger              \* resource manager: outstanding reservations

\* One routing call: feature extraction and backend selection.
VARIABLES
    rpc,                \* position of the routing call
    circuit,            \* operation names of the circuit, in order
    circuit_qubits,     \* circuit.num_qubits
    available,          \* capability registry: cached availability probes
    features,           \* FeatureVector of the circuit
    decision,           \* RoutingDecision produced
    rerr                \* error raised by the routing call

\* One ProgressiveConfigLoader.
VARIABLES
    sources,            \* self.sources
    loaded_config,      \* self.loaded_config
    aliased,            \* source whose nested dict loaded_config[k] is
    load_history,       \* self.load_history, by source name
    lerr                \* exception raised by the last load

simvars ==
    <<pc, num_qubits, shots, override, routing_decision, backend,
      reserved_resources, exc, fallback_reason, warnings_list, counts,
      result, error, log, ledger>>

routevars ==
    <<rpc, circuit, circuit_qubits, available, features, decision, rerr>>

loadervars == <<sources, loaded_config, aliased, load_history, lerr>>

\* One PluginManager.
VARIABLES
    discovered,         \* names in self._discovered_plugins / _plugin_classes
    plugins,            \* names in self._plugins
    plugin_state,       \* _status.state of the last instance made of a plugin
    last_error,         \* _status.last_error of that instance
    last_op,            \* the last operation and its arguments
    last_calls,         \* methods of the plugin the operation called, in order
    last_ret            \* what the operation returned, or the exception raised

pluginvars ==
    <<discovered, plugins, plugin_state, last_error, last_op, last_calls,
      last_ret>>

\* One IntelligentCache over one MemoryCacheBackend, and the clock.
VARIABLES
    memory_cache,       \* the MemoryCacheBackend: _cache, _access_order, ...
    default_ttl,        \* IntelligentCache.default_ttl
    clock,              \* time.time()
    last_call           \* the last operation, its key and what it returned

cachevars == <<memory_cache, default_ttl, clock, last_call>>

vars == <<simvars, routevars, loadervars, pluginvars, cachevars>>

\* The variables each specification leaves alone.
notsim == <<routevars, loadervars, pluginvars, cachevars>>

notroute == <<simvars, loadervars, pluginvars, cachevars>>

notloader == <<simvars, routevars, pluginvars, cachevars>>

notplugins == <<simvars, routevars, loadervars, cachevars>>

notcache == <<simvars, routevars, loadervars, pluginvars>>

NoError == [type |-> "none", text |-> "none", parts |-> {}]

Event(ev, kind, ok, held) == [ev |-> ev, kind |-> kind, ok |-> ok, held |-> held]

Invocations(l) == SelectSeq(l, LAMBDA e : e.ev = "invoke")

EventsOf(l, ev) == SelectSeq(l, LAMBDA e : e.ev = ev)

\* Message of the failure of a backend invocation: the kind invoked and the
\* ordinal of the invocation within the call.
FailureMessage(kind, i) == <<kind, i>>

\* Exception a _simulate_<kind> helper raises for a failed invocation.
BackendException(kind, outcome, i) ==
    [type |-> IF outcome = "unavailable" THEN "BackendUnavailableError"
              ELSE "SimulationError",
     backend |-> kind,
     parts |-> {FailureMessage(kind, i)}]

\* Outcomes of a _simulate_<kind> helper: counts, BackendUnavailableError
\* (missing import, or a false availability probe for cuda) or a runtime
\* failure.
Outcomes == {"ok", "unavailable", "error"}

BackendCounts(kind, s) == [producer |-> kind, keys |-> {"*"}, total |-> s]

\* The guaranteed-general backend and the specialised kinds of the registry.
GeneralBackend == "qiskit"

SpecialisedKinds == DispatchedKinds \ {GeneralBackend}

NoFeatures ==
    [qubit_count |-> 0, gate_count |-> 0, clifford_ratio |-> <<0, 1>>,
     is_clifford |-> FALSE, entanglement_score |-> <<0, 1>>]

\* Keys of a configuration dictionary and of a dictionary nested in it.
Keys == {"k"}

SubKeys == {"n"}

LeafValues == {"a", "b"}

\* A value of a configuration dictionary: a scalar, a nested dictionary
\* (pairs of sub-key and scalar), or no entry for the key.
Absent == [isdict |-> FALSE, leaf |-> "absent", sub |-> {}]

Leaf(v) == [isdict |-> FALSE, leaf |-> v, sub |-> {}]

Nested(d) == [isdict |-> TRUE, leaf |-> "dict", sub |-> d]

ConfigValues ==
    {Leaf(v) : v \in LeafValues}
        \cup {Nested({<<n, v>>}) : n \in SubKeys, v \in LeafValues}

EmptyConfig == [k \in Keys |-> Absent]

\* No routing call under way.
RouteIdle ==
    /\ rpc = "off"
    /\ circuit = <<>>
    /\ circuit_qubits = 0
    /\ available = [k \in SpecialisedKinds |-> FALSE]
    /\ features = NoFeatures
    /\ decision = NoDecision
    /\ rerr = "none"

\* A loader as __init__ leaves it.
LoaderIdle ==
    /\ sources = <<>>
    /\ loaded_config = EmptyConfig
    /\ aliased = [k \in Keys |-> "none"]
    /\ load_history = <<>>
    /\ lerr = "none"

\* Names of plugin classes found in the plugin directories, and a name
\* that is found nowhere.
PluginNames == {"p", "q"}

RequestedNames == PluginNames \cup {"ghost"}

NoOp ==
    [op |-> "none", name |-> "none", loaded |-> FALSE,
     ctorOk |-> FALSE, firstOk |-> FALSE, secondOk |-> FALSE]

\* A manager whose discovery found nothing and that was asked nothing.
PluginsIdle ==
    /\ discovered = {}
    /\ plugins = {}
    /\ plugin_state = [n \in PluginNames |-> "none"]
    /\ last_error = [n \in PluginNames |-> "none"]
    /\ last_op = NoOp
    /\ last_calls = <<>>
    /\ last_ret = "none"

\* None, and a float | None as the set of its values.
None == [none |-> TRUE]

NoTtl == {}

\* MemoryCacheBackend.__init__: nothing stored, nothing accounted.
MemoryCacheBackend(max_size, max_memory_bytes) ==
    [max_size |-> max_size, max_memory_bytes |-> max_memory_bytes,
     cache |-> <<>>, access_order |-> <<>>, current_memory_bytes |-> 0]

NoCall ==
    [op |-> "none", args |-> None, key |-> None, ret |-> None,
     expired |-> FALSE, touched |-> FALSE, executed |-> FALSE]

\* A cache nothing was asked of.
CacheIdle ==
    /\ memory_cache = MemoryCacheBackend(1, 1)
    /\ default_ttl = NoTtl
    /\ clock = 0
    /\ last_call = NoCall

InitSimulate ==
    /\ pc = [c \in Callers |-> "idle"]
    /\ num_qubits = [c \in Callers |-> 0]
    /\ shots = [c \in Callers |-> 0]
    /\ override = [c \in Callers |-> "none"]
    /\ routing_decision = [c \in Callers |-> NoDecision]
    /\ backend = [c \in Callers |-> "none"]
    /\ reserved_resources = [c \in Callers |-> NoTicket]
    /\ exc = [c \in Callers |-> NoExc]
    /\ fallback_reason = [c \in Callers |-> NoReason]
    /\ warnings_list = [c \in Callers |-> {}]
    /\ counts = [c \in Callers |-> NoCounts]
    /\ result = [c \in Callers |-> NoResult]
    /\ error = [c \in Callers |-> NoError]
    /\ log = [c \in Callers |-> <<>>]
    /\ ledger = {}

Init == InitSimulate /\ RouteIdle /\ LoaderIdle /\ PluginsIdle /\ CacheIdle

\* ------------------------------------------------------------------
\* simulate

Raise(c, type, text, parts) ==
    /\ pc' = [pc EXCEPT ![c] = "failed"]
    /\ error' = [error EXCEPT ![c] = [type |-> type, text |-> text, parts |-> parts]]

\* Line 361: the validation of shots.
InvalidShotsMut(s) == FALSE
InvalidShots(s) == s < 0

\* BackendType(backend) succeeds.
KnownBackendMut(b) == TRUE
KnownBackend(b) == b \in BackendType

\* Result of the empty-circuit shortcut.
EmptyCircuitResultMut(s) ==
    [counts |-> [producer |-> "none", keys |-> {""}, total |-> s],
     backend_used |-> "qiskit",
     routing_decision |-> NoDecision,
     shots |-> s,
     fallback_reason |-> NoReason,
     warnings |-> {}]
EmptyCircuitResult(s) ==
    [counts |-> [producer |-> "none",
                 keys |-> IF s > 0 THEN {""} ELSE {},
                 total |-> IF s > 0 THEN s ELSE 0],
     backend_used |-> "qiskit",
     routing_decision |-> NoDecision,
     shots |-> s,
     fallback_reason |-> NoReason,
     warnings |-> {}]

\* Entry of simulate: input validation, the empty-circuit shortcut and the
\* validation of the override.
SimulateEnter(c, n, s, b) ==
    /\ pc[c] = "idle"
    /\ num_qubits' = [num_qubits EXCEPT ![c] = n]
    /\ shots' = [shots EXCEPT ![c] = s]
    /\ override' = [override EXCEPT ![c] = b]
    /\ IF InvalidShots(s)
       THEN /\ Raise(c, "ValueError", "shots must be non-negative", {})
            /\ UNCHANGED result
       ELSE IF n <= 0
       THEN /\ pc' = [pc EXCEPT ![c] = "succeeded"]
            /\ result' = [result EXCEPT ![c] = EmptyCircuitResult(s)]
            /\ UNCHANGED error
       ELSE IF b # "none"
       THEN IF ~KnownBackend(b)
            THEN /\ Raise(c, "ValueError", "Unknown backend", {})
                 /\ UNCHANGED result
            ELSE /\ pc' = [pc EXCEPT ![c] = "forced_check"]
                 /\ UNCHANGED <<result, error>>
       ELSE /\ pc' = [pc EXCEPT ![c] = "routing"]
            /\ UNCHANGED <<result, error>>
    /\ UNCHANGED <<routing_decision, backend, reserved_resources, exc,
                   fallback_reason, warnings_list, counts, log, ledger>>

ForcedDecisionMut(b) ==
    [recommended_backend |-> b, confidence_score |-> <<2, 1>>,
     alternatives |-> <<>>, forced |-> TRUE]

ForcedDecision(b) ==
    [recommended_backend |-> b, confidence_score |-> <<1, 1>>,
     alternatives |-> <<>>, forced |-> TRUE]

\* Forced backend: feasibility check of simulate, then the forced decision.
ForcedCheckMut(c) ==
    /\ pc[c] = "forced_check"
    /\ pc' = [pc EXCEPT ![c] = "reserved"]
    /\ backend' = [backend EXCEPT ![c] = override[c]]
    /\ routing_decision' =
           [routing_decision EXCEPT ![c] = ForcedDecision(override[c])]
    /\ log' = [log EXCEPT ![c] =
           Append(@, Event("precheck", override[c], TRUE, "none"))]
    /\ UNCHANGED <<num_qubits, shots, override, reserved_resources, exc,
                   fallback_reason, warnings_list, counts, result, error,
                   ledger>>
ForcedCheck(c) ==
    /\ pc[c] = "forced_check"
    /\ LET ok == CanHandle(ledger, override[c], num_qubits[c]) IN
       /\ log' = [log EXCEPT ![c] =
              Append(@, Event("precheck", override[c], ok, "none"))]
       /\ IF ~ok
          THEN /\ Raise(c, "CircuitTooLargeError", "circuit too large", {})
               /\ UNCHANGED routing_decision
          ELSE /\ pc' = [pc EXCEPT ![c] = "selected"]
               /\ routing_decision' =
                      [routing_decision EXCEPT ![c] = ForcedDecision(override[c])]
               /\ UNCHANGED error
    /\ UNCHANGED <<num_qubits, shots, override, backend, reserved_resources,
                   exc, fallback_reason, warnings_list, counts, result,
                   ledger>>

\* The execution controller reads only recommended_backend of the decision
\* the router returns; the decision is kept by that field here.
RoutedDecision(k) ==
    [recommended_backend |-> k, confidence_score |-> <<1, 1>>,
     alternatives |-> <<>>, forced |-> FALSE]

\* No override: the enhanced router selects a backend or fails.
Route(c) ==
    /\ pc[c] = "routing"
    /\ \/ \E k \in BackendType :
            /\ log' = [log EXCEPT ![c] = Append(@, Event("route", k, TRUE, "none"))]
            /\ routing_decision' = [routing_decision EXCEPT ![c] = RoutedDecision(k)]
            /\ pc' = [pc EXCEPT ![c] = "selected"]
            /\ UNCHANGED error
       \/ /\ log' = [log EXCEPT ![c] = Append(@, Event("route", "none", FALSE, "none"))]
          /\ Raise(c, "SimulationError", "Router failed", {})
          /\ UNCHANGED routing_decision
    /\ UNCHANGED <<num_qubits, shots, override, backend, reserved_resources,
                   exc, fallback_reason, warnings_list, counts, result,
                   ledger>>

\* ------------------------------------------------------------------
\* _execute_simulation

Held(c) == reserved_resources[c].backend

\* Lines 253-259: the feasibility check of the recommended backend.
CheckFeasibilityMut(c) ==
    /\ pc[c] = "selected"
    /\ LET k == routing_decision[c].recommended_backend
           ok == CanHandle(ledger, k, num_qubits[c]) IN
       /\ backend' = [backend EXCEPT ![c] = k]
       /\ log' = [log EXCEPT ![c] = Append(@, Event("check", k, ok, "none"))]
       /\ pc' = [pc EXCEPT ![c] = "checked"]
       /\ UNCHANGED error
    /\ UNCHANGED <<num_qubits, shots, override, routing_decision,
                   reserved_resources, exc, fallback_reason, warnings_list,
                   counts, result, ledger>>
CheckFeasibility(c) ==
    /\ pc[c] = "selected"
    /\ LET k == routing_decision[c].recommended_backend
           ok == CanHandle(ledger, k, num_qubits[c]) IN
       /\ backend' = [backend EXCEPT ![c] = k]
       /\ log' = [log EXCEPT ![c] = Append(@, Event("check", k, ok, "none"))]
       /\ IF ~ok
          THEN Raise(c, "ResourceExhaustionError", "memory", {})
          ELSE /\ pc' = [pc EXCEPT ![c] = "checked"]
               /\ UNCHANGED error
    /\ UNCHANGED <<num_qubits, shots, override, routing_decision,
                   reserved_resources, exc, fallback_reason, warnings_list,
                   counts, result, ledger>>

\* Lines 273-278: the reservation; a ResourceExhaustionError is re-raised.
ReserveMut(c) ==
    /\ pc[c] = "checked"
    /\ LET ok == CanReserve(ledger, backend[c], num_qubits[c])
           t == MakeTicket(c, backend[c], num_qubits[c]) IN
       /\ log' = [log EXCEPT ![c] = Append(@, Event("reserve", backend[c], ok, "none"))]
       /\ pc' = [pc EXCEPT ![c] = "reserved"]
       /\ IF ok
          THEN /\ ledger' = ledger \cup {t}
               /\ reserved_resources' = [reserved_resources EXCEPT ![c] = t]
          ELSE UNCHANGED <<ledger, reserved_resources>>
       /\ UNCHANGED error
    /\ UNCHANGED <<num_qubits, shots, override, routing_decision, backend,
                   exc, fallback_reason, warnings_list, counts, result>>
Reserve(c) ==
    /\ pc[c] = "checked"
    /\ LET ok == CanReserve(ledger, backend[c], num_qubits[c])
           t == MakeTicket(c, backend[c], num_qubits[c]) IN
       /\ log' = [log EXCEPT ![c] = Append(@, Event("reserve", backend[c], ok, "none"))]
       /\ IF ok
          THEN /\ ledger' = ledger \cup {t}
               /\ reserved_resources' = [reserved_resources EXCEPT ![c] = t]
               /\ pc' = [pc EXCEPT ![c] = "reserved"]
               /\ UNCHANGED error
          ELSE /\ Raise(c, "ResourceExhaustionError", "memory", {})
               /\ UNCHANGED <<ledger, reserved_resources>>
    /\ UNCHANGED <<num_qubits, shots, override, routing_decision, backend,
                   exc, fallback_reason, warnings_list, counts, result>>

\* Lines 282-307: the dispatch on the recommended backend.  o is the outcome
\* of the first helper call, q the outcome of the Qiskit call that
\* _simulate_tensor_network makes after a runtime failure.
InvokeSelected(c, o, q) ==
    /\ pc[c] = "reserved"
    /\ LET k == backend[c]
           h == Held(c)
           s == shots[c] IN
       IF k \in DispatchedKinds \ {"tensor_network"}
       THEN /\ o \in Outcomes
            /\ q = "ok"
            /\ log' = [log EXCEPT ![c] = Append(@, Event("invoke", k, o = "ok", h))]
            /\ UNCHANGED <<backend, warnings_list>>
            /\ IF o = "ok"
               THEN /\ counts' = [counts EXCEPT ![c] = BackendCounts(k, s)]
                    /\ pc' = [pc EXCEPT ![c] = "executed"]
                    /\ UNCHANGED exc
               ELSE /\ exc' = [exc EXCEPT ![c] = BackendException(k, o, 1)]
                    /\ pc' = [pc EXCEPT ![c] = "exec_failed"]
                    /\ UNCHANGED counts
       ELSE IF k = "tensor_network"
       THEN /\ o \in Outcomes
            /\ UNCHANGED <<backend, warnings_list>>
            /\ IF o = "ok"
               THEN /\ q = "ok"
                    /\ log' = [log EXCEPT ![c] = Append(@, Event("invoke", k, TRUE, h))]
                    /\ counts' = [counts EXCEPT ![c] = BackendCounts(k, s)]
                    /\ pc' = [pc EXCEPT ![c] = "executed"]
                    /\ UNCHANGED exc
               ELSE IF o = "unavailable"
               THEN /\ q = "ok"
                    /\ log' = [log EXCEPT ![c] = Append(@, Event("invoke", k, FALSE, h))]
                    /\ exc' = [exc EXCEPT ![c] = BackendException(k, o, 1)]
                    /\ pc' = [pc EXCEPT ![c] = "exec_failed"]
                    /\ UNCHANGED counts
               ELSE /\ q \in Outcomes
                    /\ log' = [log EXCEPT ![c] =
                           @ \o <<Event("invoke", k, FALSE, h),
                                  Event("invoke", "qiskit", q = "ok", h)>>]
                    /\ IF q = "ok"
                       THEN /\ counts' = [counts EXCEPT ![c] = BackendCounts("qiskit", s)]
                            /\ pc' = [pc EXCEPT ![c] = "executed"]
                            /\ UNCHANGED exc
                       ELSE /\ exc' = [exc EXCEPT ![c] = BackendException("qiskit", q, 2)]
                            /\ pc' = [pc EXCEPT ![c] = "exec_failed"]
                            /\ UNCHANGED counts
       ELSE /\ o \in Outcomes
            /\ q = "ok"
            /\ log' = [log EXCEPT ![c] = Append(@, Event("invoke", "qiskit", o = "ok", h))]
            /\ IF o = "ok"
               THEN /\ counts' = [counts EXCEPT ![c] = BackendCounts("qiskit", s)]
                    /\ backend' = [backend EXCEPT ![c] = "qiskit"]
                    /\ warnings_list' = [warnings_list EXCEPT ![c] =
                           @ \cup {<<"Unknown backend selected", "qiskit">>}]
                    /\ pc' = [pc EXCEPT ![c] = "executed"]
                    /\ UNCHANGED exc
               ELSE /\ exc' = [exc EXCEPT ![c] = BackendException("qiskit", o, 1)]
                    /\ pc' = [pc EXCEPT ![c] = "exec_failed"]
                    /\ UNCHANGED <<counts, backend, warnings_list>>
    /\ UNCHANGED <<num_qubits, shots, override, routing_decision,
                   reserved_resources, fallback_reason, result, error, ledger>>

\* Lines 309-326: the handler of a failed dispatch falls back to Qiskit.
FallbackMut(c, q) ==
    /\ pc[c] = "exec_failed"
    /\ q \in Outcomes
    /\ pc' = [pc EXCEPT ![c] = "routing"]
    /\ exc' = [exc EXCEPT ![c] = NoExc]
    /\ UNCHANGED <<num_qubits, shots, override, routing_decision, backend,
                   reserved_resources, fallback_reason, warnings_list, counts,
                   result, error, log, ledger>>
Fallback(c, q) ==
    /\ pc[c] = "exec_failed"
    /\ q \in Outcomes
    /\ LET i == Len(Invocations(log[c])) + 1 IN
       /\ fallback_reason' = [fallback_reason EXCEPT ![c] =
              [backend_name |-> backend[c], parts |-> exc[c].parts]]
       /\ log' = [log EXCEPT ![c] =
              Append(@, Event("invoke", "qiskit", q = "ok", Held(c)))]
       /\ IF q = "ok"
          THEN /\ counts' = [counts EXCEPT ![c] = BackendCounts("qiskit", shots[c])]
               /\ backend' = [backend EXCEPT ![c] = "qiskit"]
               /\ pc' = [pc EXCEPT ![c] = "executed"]
               /\ UNCHANGED error
          ELSE /\ Raise(c, "SimulationError", "All backends failed",
                        exc[c].parts \cup {FailureMessage("qiskit", i)})
               /\ UNCHANGED <<counts, backend>>
    /\ exc' = [exc EXCEPT ![c] = NoExc]
    /\ UNCHANGED <<num_qubits, shots, override, routing_decision,
                   reserved_resources, warnings_list, result, ledger>>

\* Lines 338-341: the advisory warnings on experimental backends.
ExperimentalWarnings(k, cudaOk, metalOk) ==
    IF k = "jax_metal" /\ metalOk
    THEN {<<"JAX-Metal support is experimental", k>>}
    ELSE IF k = "cuda" /\ ~cudaOk
    THEN {<<"CUDA backend selected but CUDA not available", k>>}
    ELSE {}

\* Lines 328-351: release of the reservation and the SimulationResult.
FinishMut(c, cudaOk, metalOk) ==
    /\ pc[c] = "executed"
    /\ pc' = [pc EXCEPT ![c] = "succeeded"]
    /\ IF fallback_reason[c] = NoReason
       THEN /\ ledger' = ReleaseTicket(ledger, reserved_resources[c])
            /\ log' = [log EXCEPT ![c] =
                   Append(@, Event("release", Held(c), TRUE, Held(c)))]
       ELSE UNCHANGED <<ledger, log>>
    /\ result' = [result EXCEPT ![c] =
           [counts |-> counts[c],
            backend_used |-> backend[c],
            routing_decision |-> routing_decision[c],
            shots |-> shots[c],
            fallback_reason |-> fallback_reason[c],
            warnings |-> warnings_list[c] \cup
                ExperimentalWarnings(backend[c], cudaOk, metalOk)]]
    /\ UNCHANGED <<num_qubits, shots, override, routing_decision, backend,
                   reserved_resources, exc, fallback_reason, warnings_list,
                   counts, error>>
Finish(c, cudaOk, metalOk) ==
    /\ pc[c] = "executed"
    /\ pc' = [pc EXCEPT ![c] = "succeeded"]
    /\ IF reserved_resources[c] # NoTicket
       THEN /\ ledger' = ReleaseTicket(ledger, reserved_resources[c])
            /\ log' = [log EXCEPT ![c] =
                   Append(@, Event("release", Held(c), TRUE, Held(c)))]
       ELSE UNCHANGED <<ledger, log>>
    /\ result' = [result EXCEPT ![c] =
           [counts |-> counts[c],
            backend_used |-> backend[c],
            routing_decision |-> routing_decision[c],
            shots |-> shots[c],
            fallback_reason |-> fallback_reason[c],
            warnings |-> warnings_list[c] \cup
                ExperimentalWarnings(backend[c], cudaOk, metalOk)]]
    /\ UNCHANGED <<num_qubits, shots, override, routing_decision, backend,
                   reserved_resources, exc, fallback_reason, warnings_list,
                   counts, error>>

\* ------------------------------------------------------------------
\* Specification

Next ==
    \E c \in Callers :
        \/ /\ \E n \in QubitCounts, s \in -1..MaxShots, b \in Overrides :
                  SimulateEnter(c, n, s, b)
           /\ UNCHANGED notsim
        \/ ForcedCheck(c) /\ UNCHANGED notsim
        \/ Route(c) /\ UNCHANGED notsim
        \/ CheckFeasibility(c) /\ UNCHANGED notsim
        \/ Reserve(c) /\ UNCHANGED notsim
        \/ /\ \E o \in Outcomes, q \in Outcomes :
                  InvokeSelected(c, o, q)
           /\ UNCHANGED notsim
        \/ /\ \E q \in Outcomes : Fallback(c, q)
           /\ UNCHANGED notsim
        \/ /\ \E cudaOk \in BOOLEAN, metalOk \in BOOLEAN :
                  Finish(c, cudaOk, metalOk)
           /\ UNCHANGED notsim

Spec == Init /\ [][Next]_vars

\* Every step of a call is straight-line code and every backend invocation
\* returns or raises: a call that can take a step takes one.
FairSpec == Spec /\ WF_vars(Next)

\* ------------------------------------------------------------------
\* Feature extraction (ariadne.route.analyze)

\* The fixed Clifford gate-name set.
CliffordGates == {"id", "x", "y", "z", "h", "s", "sdg", "cx", "cz", "swap"}

\* Operations that never affect the classification.
Annotations == {"measure", "barrier"}

TwoQubitGates == {"cx", "cz", "swap"}

\* Operation names the analysed circuits are built from: Clifford gates, a
\* non-Clifford gate, and the annotations.
GateAlphabet == {"h", "cx", "t"} \cup Annotations

Circuits == UNION {[1..n -> GateAlphabet] : n \in 0..MaxGates}

RECURSIVE CountIn(_, _)
CountIn(ops, S) ==
    IF ops = <<>> THEN 0
    ELSE (IF Head(ops) \in S THEN 1 ELSE 0) + CountIn(Tail(ops), S)

\* The operations that are classified.
Qualifying(ops) == SelectSeq(ops, LAMBDA g : g \notin Annotations)

\* Clifford operations among `counted`, as a fraction; 1 when none is counted.
CliffordRatio(counted) ==
    IF Len(counted) = 0 THEN <<1, 1>>
    ELSE <<CountIn(counted, CliffordGates), Len(counted)>>

IsCliffordCircuitMut(ops) ==
    LET r == CliffordRatio(ops) IN r[1] = r[2]

\* is_clifford_circuit: clifford_ratio == 1.0 over the classified operations.
IsCliffordCircuit(ops) ==
    LET r == CliffordRatio(Qualifying(ops)) IN r[1] = r[2]

\* analyze_circuit: the feature vector of a circuit.
AnalyzeCircuit(ops, n) ==
    LET q == Qualifying(ops) IN
    [qubit_count |-> n,
     gate_count |-> Len(ops),
     clifford_ratio |-> CliffordRatio(q),
     is_clifford |-> IsCliffordCircuit(ops),
     entanglement_score |->
         <<CountIn(q, TwoQubitGates), IF Len(q) = 0 THEN 1 ELSE Len(q)>>]

\* ------------------------------------------------------------------
\* Capability registry and scored router (ariadne.route.enhanced_router)

\* Kinds in registration order.
RegistrationOrder ==
    <<"stim", "tensor_network", "mps", "ddsim", "cuda", "jax_metal">>

RegistrationIndex(k) ==
    CHOOSE i \in DOMAIN RegistrationOrder : RegistrationOrder[i] = k

\* BackendDescriptor fields.
SupportsCliffordFastPath(k) == k = "stim"

SupportsGeneral(k) == k # "stim"

RequiresSpecialHardware(k) == k \in {"cuda", "jax_metal"}

LowRank(k) == k \in {"tensor_network", "mps"}

MaxQubitsOf(k) ==
    IF k = "stim" \/ LowRank(k) THEN HugeQubits - 1 ELSE MaxQubits

RelativeCost(k) ==
    IF k = "stim" THEN 1 ELSE IF LowRank(k) THEN 2 ELSE 3

SpeedRating(k) ==
    IF k = "stim" THEN 3 ELSE IF RequiresSpecialHardware(k) THEN 2 ELSE 1

CapacityOkMut(k, f) == f.qubit_count <= MaxQubitsOf(k)

\* capacity_ok: max_qubits and the capability flags against the classification.
CapacityOk(k, f) ==
    /\ f.qubit_count <= MaxQubitsOf(k)
    /\ (f.is_clifford \/ SupportsGeneral(k))

\* The availability gate.
PassesGate(k, f, avail) == avail[k] /\ CapacityOk(k, f)

\* The weighting profile of the hybrid strategy.
HybridWeights ==
    [clifford_match |-> 10, capacity_fit |-> 1, entanglement_fit |-> 1,
     hardware_affinity |-> 2]

RuleNames ==
    {"clifford_match", "capacity_fit", "entanglement_fit", "hardware_affinity"}

\* What each scoring rule gives backend k for feature vector f.
RuleScore(rule, k, f) ==
    IF rule = "clifford_match"
    THEN IF f.is_clifford /\ SupportsCliffordFastPath(k) THEN 1 ELSE 0
    ELSE IF rule = "capacity_fit"
    THEN IF f.qubit_count < MaxQubitsOf(k) THEN 1 ELSE 0
    ELSE IF rule = "entanglement_fit"
    THEN IF LowRank(k) = (2 * f.entanglement_score[1] <= f.entanglement_score[2])
         THEN 1 ELSE 0
    ELSE IF RequiresSpecialHardware(k) THEN 1 ELSE 0

RECURSIVE WeightedSum(_, _, _)
WeightedSum(rules, k, f) ==
    IF rules = {} THEN 0
    ELSE LET r == CHOOSE x \in rules : TRUE IN
         HybridWeights[r] * RuleScore(r, k, f) + WeightedSum(rules \ {r}, k, f)

Score(k, f) == SpeedRating(k) + WeightedSum(RuleNames, k, f)

\* a is ranked before b: the higher score, then the fixed preference order.
RankedBefore(a, b, f) ==
    \/ Score(a, f) > Score(b, f)
    \/ /\ Score(a, f) = Score(b, f)
       /\ \/ SupportsCliffordFastPath(a) /\ ~SupportsCliffordFastPath(b)
          \/ /\ SupportsCliffordFastPath(a) = SupportsCliffordFastPath(b)
             /\ \/ RelativeCost(a) < RelativeCost(b)
                \/ /\ RelativeCost(a) = RelativeCost(b)
                   /\ RegistrationIndex(a) < RegistrationIndex(b)

RECURSIVE Ranking(_, _)
Ranking(S, f) ==
    IF S = {} THEN <<>>
    ELSE LET b == CHOOSE x \in S : \A y \in S \ {x} : RankedBefore(x, y, f) IN
         <<b>> \o Ranking(S \ {b}, f)

RECURSIVE MaxScore(_, _)
MaxScore(S, f) ==
    IF S = {} THEN 0
    ELSE LET k == CHOOSE x \in S : TRUE
             m == MaxScore(S \ {k}, f) IN
         IF Score(k, f) > m THEN Score(k, f) ELSE m

CandidatesMut(f, avail) == {k \in SpecialisedKinds : avail[k]}

\* The backends that pass the availability gate.
Candidates(f, avail) == {k \in SpecialisedKinds : PassesGate(k, f, avail)}

\* The decision when no specialised backend passes the gate.
GeneralDecision ==
    [recommended_backend |-> GeneralBackend, confidence_score |-> <<0, 1>>,
     alternatives |-> <<>>, forced |-> FALSE,
     reason |-> {"no specialized backend qualified"}]

\* The decision of the scored router: the first of the ranking, its score
\* normalised against the best score any registered backend could have, and
\* the other candidates in ranking order.
ScoredDecision(f, avail) ==
    LET r == Ranking(Candidates(f, avail), f)
        w == r[1] IN
    [recommended_backend |-> w,
     confidence_score |-> <<Score(w, f), MaxScore(SpecialisedKinds, f)>>,
     alternatives |->
         [i \in 1..(Len(r) - 1) |-> [kind |-> r[i + 1], score |-> Score(r[i + 1], f)]],
     forced |-> FALSE,
     reason |-> {x \in RuleNames : HybridWeights[x] * RuleScore(x, w, f) # 0}]

\* select_optimal_backend
SelectOptimalBackend(f, avail) ==
    IF Candidates(f, avail) = {} THEN GeneralDecision
    ELSE ScoredDecision(f, avail)

\* The circuit exceeds max_qubits of every registered backend.
ExceedsEveryBackend(f) ==
    \A k \in SpecialisedKinds \cup {GeneralBackend} : f.qubit_count > MaxQubitsOf(k)

\* ------------------------------------------------------------------
\* One routing call

\* Qubit counts of the circuits routed (an empty circuit is never routed).
RoutedQubitCounts == {MaxQubits, HugeQubits - 1, HugeQubits}

InitRoute ==
    /\ InitSimulate
    /\ LoaderIdle
    /\ PluginsIdle
    /\ CacheIdle
    /\ rpc = "new"
    /\ circuit \in Circuits
    /\ circuit_qubits \in RoutedQubitCounts
    /\ available \in [SpecialisedKinds -> BOOLEAN]
    /\ features = NoFeatures
    /\ decision = NoDecision
    /\ rerr = "none"

\* The feature vector is computed once per routing call.
Analyze ==
    /\ rpc = "new"
    /\ features' = AnalyzeCircuit(circuit, circuit_qubits)
    /\ rpc' = "analysed"
    /\ UNCHANGED <<circuit, circuit_qubits, available, decision, rerr>>

\* No override: the scored router decides on the feature vector.
RouteScored ==
    /\ rpc = "analysed"
    /\ IF ExceedsEveryBackend(features)
       THEN /\ rerr' = "CircuitTooLargeError"
            /\ rpc' = "failed"
            /\ UNCHANGED decision
       ELSE /\ decision' = SelectOptimalBackend(features, available)
            /\ rpc' = "decided"
            /\ UNCHANGED rerr
    /\ UNCHANGED <<circuit, circuit_qubits, available, features>>

\* Override b (router.py 377-399): validation, feasibility check, forced
\* decision; the router is not asked.
ForceDecision(b) ==
    /\ rpc = "new"
    /\ IF ~KnownBackend(b)
       THEN /\ rerr' = "ValueError"
            /\ rpc' = "failed"
            /\ UNCHANGED decision
       ELSE IF ~CanHandle(ledger, b, circuit_qubits)
       THEN /\ rerr' = "CircuitTooLargeError"
            /\ rpc' = "failed"
            /\ UNCHANGED decision
       ELSE /\ decision' = ForcedDecision(b)
            /\ rpc' = "decided"
            /\ UNCHANGED rerr
    /\ UNCHANGED <<circuit, circuit_qubits, available, features>>

NextRoute ==
    \/ Analyze /\ UNCHANGED notroute
    \/ RouteScored /\ UNCHANGED notroute
    \/ /\ \E b \in Overrides \ {"none"} : ForceDecision(b)
       /\ UNCHANGED notroute

SpecRoute == InitRoute /\ [][NextRoute]_vars

\* ------------------------------------------------------------------
\* ProgressiveConfigLoader (src/ariadne/config/loader.py)

\* Sources are data sources (add_dict_source): data given, no path.
SourceNames == {"A", "B"}

SourceEnvironments == {"none", "prod"}

LoadEnvironments == {"none", "prod", "dev"}

\* ConfigSource
ConfigSource(name, data, priority, environment, required) ==
    [name |-> name, data |-> data, priority |-> priority,
     environment |-> environment, required |-> required]

\* list.sort(key=priority, reverse=True) is stable: s goes behind every
\* source whose priority is at least its own.
RECURSIVE InsertByPriority(_, _)
InsertByPriority(sorted, s) ==
    IF sorted = <<>> THEN <<s>>
    ELSE IF Head(sorted).priority >= s.priority
    THEN <<Head(sorted)>> \o InsertByPriority(Tail(sorted), s)
    ELSE <<s>> \o sorted

RECURSIVE SortByPriority(_)
SortByPriority(seq) ==
    IF seq = <<>> THEN <<>>
    ELSE InsertByPriority(SortByPriority(SubSeq(seq, 1, Len(seq) - 1)),
                          seq[Len(seq)])

InitLoader ==
    /\ InitSimulate
    /\ RouteIdle
    /\ PluginsIdle
    /\ CacheIdle
    /\ LoaderIdle

\* add_source: append, then sort by priority, higher first.
AddSource(name, data, priority, environment, required) ==
    /\ \A i \in DOMAIN sources : sources[i].name # name
    /\ sources' = SortByPriority(
           Append(sources, ConfigSource(name, data, priority, environment, required)))
    /\ UNCHANGED <<loaded_config, aliased, load_history, lerr>>

\* `if source.data:` of _load_source: the dictionary is given and not empty.
HasData(s) == \E k \in Keys : s.data[k] # Absent

\* _merge_config on one key: both values dictionaries, merged recursively.
MergedInto(base, value) == base # Absent /\ base.isdict /\ value.isdict

MergeSub(base, value) ==
    {p \in base : \A q \in value : q[1] # p[1]} \cup value

\* _merge_config(base, override) for one key of base.
MergeValue(base, value) ==
    IF value = Absent THEN base
    ELSE IF MergedInto(base, value) THEN Nested(MergeSub(base.sub, value.sub))
    ELSE value

\* The loop of load from source i on. st holds self.loaded_config, the
\* source each nested dictionary of it belongs to, the history, the sources
\* (a recursive merge writes into the dictionary of the source it was taken
\* from) and the exception raised.
RECURSIVE LoadFrom(_, _, _)
LoadFrom(i, environment, st) ==
    IF i > Len(st.srcs) \/ st.err # "none" THEN st
    ELSE LET s == st.srcs[i] IN
         IF environment # "none" /\ s.environment \notin {"none", environment}
         THEN LoadFrom(i + 1, environment, st)
         ELSE IF ~HasData(s)
         THEN LoadFrom(i + 1, environment,
                       [st EXCEPT !.err = IF s.required THEN "ConfigLoadError"
                                          ELSE "none"])
         ELSE LET cfg == [k \in Keys |-> MergeValue(st.cfg[k], s.data[k])]
                  al == [k \in Keys |->
                            IF s.data[k] = Absent \/ MergedInto(st.cfg[k], s.data[k])
                            THEN st.al[k]
                            ELSE IF s.data[k].isdict THEN s.name ELSE "none"]
                  srcs == [j \in DOMAIN st.srcs |->
                              [st.srcs[j] EXCEPT !.data =
                                  [k \in Keys |->
                                      IF /\ MergedInto(st.cfg[k], s.data[k])
                                         /\ st.al[k] = st.srcs[j].name
                                      THEN cfg[k] ELSE @[k]]]]
              IN LoadFrom(i + 1, environment,
                          [cfg |-> cfg, al |-> al,
                           hist |-> Append(st.hist, s.name),
                           srcs |-> srcs, err |-> "none"])

\* load(environment, schema_name); valid is the validator's verdict.
Load(environment, schema_name, valid) ==
    LET st == LoadFrom(1, environment,
                       [cfg |-> EmptyConfig, al |-> [k \in Keys |-> "none"],
                        hist |-> <<>>, srcs |-> sources, err |-> "none"])
    IN /\ loaded_config' = st.cfg
       /\ aliased' = st.al
       /\ load_history' = st.hist
       /\ sources' = st.srcs
       /\ lerr' = IF st.err # "none" THEN st.err
                  ELSE IF schema_name # "none" /\ ~valid THEN "ConfigLoadError"
                  ELSE "none"

NextLoader ==
    \/ /\ \E name \in SourceNames, data \in [Keys -> ConfigValues \cup {Absent}],
             priority \in 0..MaxPriority, environment \in SourceEnvironments,
             required \in BOOLEAN :
               AddSource(name, data, priority, environment, required)
       /\ UNCHANGED notloader
    \/ /\ \E environment \in LoadEnvironments, schema_name \in {"none", "hardware"},
             valid \in BOOLEAN :
               Load(environment, schema_name, valid)
       /\ UNCHANGED notloader

SpecLoader == InitLoader /\ [][NextLoader]_vars

\* ------------------------------------------------------------------
\* Vocabulary of the properties

Terminal(c) == pc[c] \in {"succeeded", "failed"}

\* Reservations of caller c that the resource manager still holds.
Outstanding(c) == {t \in ledger : t.owner = c}

Aggregate == SumMem(ledger)

Inv(c) == Invocations(log[c])

NumInvocations(c) == Len(Inv(c))

Failed(c, ev) == \E i \in DOMAIN log[c] : log[c][i].ev = ev /\ ~log[c][i].ok

Succeeded(c, ev) == \E i \in DOMAIN log[c] : log[c][i].ev = ev /\ log[c][i].ok

Recommended(c) == routing_decision[c].recommended_backend

\* The first invocation of the call was of the recommended backend and failed.
SelectedFailed(c) ==
    /\ NumInvocations(c) >= 1
    /\ Inv(c)[1].kind = Recommended(c)
    /\ ~Inv(c)[1].ok

\* The last invocation of the call was a later invocation of Qiskit.
LastIsFallback(c) ==
    /\ NumInvocations(c) >= 2
    /\ Inv(c)[NumInvocations(c)].kind = "qiskit"

\* ------------------------------------------------------------------
\* C1: after a simulate call that succeeded (with or without fallback) or
\* failed before any backend was invoked, the call has left nothing in the
\* ledger: the aggregate outstanding reservation is what it was without the
\* call, and with no other call under way it is zero again.
C1_ReservationBalanced ==
    /\ \A c \in Callers :
           (pc[c] = "succeeded" \/ (pc[c] = "failed" /\ NumInvocations(c) = 0))
               => SumMem(Outstanding(c)) = 0
    /\ (\A c \in Callers :
           pc[c] = "idle" \/ pc[c] = "succeeded"
               \/ (pc[c] = "failed" /\ NumInvocations(c) = 0))
           => Aggregate = 0

C1_Witness ==
    \E c \in Callers :
        /\ pc[c] = "succeeded"
        /\ result[c].fallback_reason # NoReason
        /\ Succeeded(c, "reserve")
        /\ Succeeded(c, "release")
        /\ Outstanding(c) = {}

\* C2: every reservation a simulate call made is released exactly once by
\* the time the call has returned or raised, on every exit path.
C2_ReleasedOnEveryExit ==
    \A c \in Callers :
        Terminal(c) =>
            /\ Outstanding(c) = {}
            /\ Len(EventsOf(log[c], "release")) =
                   Len(SelectSeq(log[c], LAMBDA e : e.ev = "reserve" /\ e.ok))

\* C3: a call invokes the recommended backend at most once and Qiskit at most
\* once as its fallback, hence at most two backends in total.
C3_AtMostOneFallbackHop ==
    \A c \in Callers :
        /\ NumInvocations(c) <= 2
        /\ Len(SelectSeq(Inv(c), LAMBDA e : e.kind = "qiskit"))
               <= IF Recommended(c) = "qiskit" THEN 2 ELSE 1

\* C4: when the recommended backend failed and the fallback invocation of
\* Qiskit succeeded, the call returns a result with backend_used Qiskit and a
\* fallback_reason that names the failed backend.
C4_RecoveredResult ==
    \A c \in Callers :
        (Terminal(c) /\ SelectedFailed(c) /\ LastIsFallback(c)
             /\ Inv(c)[NumInvocations(c)].ok)
            => /\ pc[c] = "succeeded"
               /\ result[c].backend_used = "qiskit"
               /\ result[c].fallback_reason # NoReason
               /\ result[c].fallback_reason.backend_name = Recommended(c)

\* C5: when the recommended backend failed and the fallback invocation of
\* Qiskit failed too, the call raises one aggregate error whose message
\* contains the message of the original failure and that of the fallback.
C5_AggregateError ==
    \A c \in Callers :
        (Terminal(c) /\ SelectedFailed(c) /\ LastIsFallback(c)
             /\ ~Inv(c)[NumInvocations(c)].ok)
            => /\ pc[c] = "failed"
               /\ result[c] = NoResult
               /\ error[c].type = "SimulationError"
               /\ FailureMessage(Recommended(c), 1) \in error[c].parts
               /\ FailureMessage("qiskit", NumInvocations(c)) \in error[c].parts

\* C6: a result returned after a backend ran names in backend_used the
\* backend that produced the counts, and has a fallback_reason exactly when
\* that backend is not the recommended one.
C6_BackendUsedIsProducer ==
    \A c \in Callers :
        (pc[c] = "succeeded" /\ NumInvocations(c) >= 1)
            => /\ result[c].backend_used = result[c].counts.producer
               /\ (result[c].fallback_reason # NoReason)
                      <=> (result[c].counts.producer # Recommended(c))

\* C7: every invocation after a failed one runs after the first reservation
\* was released and under a reservation made for Qiskit.
C7_FallbackUnderNewReservation ==
    \A c \in Callers :
        \A i \in DOMAIN log[c] :
            (log[c][i].ev = "invoke"
                 /\ \E j \in 1..(i - 1) : log[c][j].ev = "invoke" /\ ~log[c][j].ok)
                => /\ \E j \in 1..(i - 1) : log[c][j].ev = "release"
                   /\ \E j \in 1..(i - 1) :
                          /\ log[c][j].ev = "reserve"
                          /\ log[c][j].kind = "qiskit"
                          /\ log[c][j].ok
                          /\ \E r \in 1..(j - 1) : log[c][r].ev = "release"
                   /\ log[c][i].held = "qiskit"

\* No backend ran for the call and it holds nothing in the ledger.
NothingRun(c) == NumInvocations(c) = 0 /\ Outstanding(c) = {}

\* C8 as stated: a failed feasibility check (of simulate or of the execution
\* controller) or a failed reservation makes the call fail with a
\* resource-exhausted error, without any invocation or reservation left.
C8_AdmissionFailureIsResourceExhausted ==
    \A c \in Callers :
        (Failed(c, "precheck") \/ Failed(c, "check") \/ Failed(c, "reserve"))
            => /\ pc[c] = "failed"
               /\ error[c].type = "ResourceExhaustionError"
               /\ NothingRun(c)

\* C8 amended: a failed feasibility check of the execution controller or a
\* failed reservation fails the call with a resource-exhausted error, a
\* failed feasibility check of simulate on a forced backend fails it with a
\* circuit-too-large error; in every case nothing was invoked and nothing is
\* left reserved.
C8_AdmissionFailure ==
    \A c \in Callers :
        /\ (Failed(c, "check") \/ Failed(c, "reserve"))
               => /\ pc[c] = "failed"
                  /\ error[c].type = "ResourceExhaustionError"
                  /\ NothingRun(c)
        /\ Failed(c, "precheck")
               => /\ pc[c] = "failed"
                  /\ error[c].type = "CircuitTooLargeError"
                  /\ NothingRun(c)

C8_Witness ==
    \E c \in Callers :
        /\ Succeeded(c, "check")
        /\ Failed(c, "reserve")
        /\ pc[c] = "failed"
        /\ error[c].type = "ResourceExhaustionError"

\* C9: with concurrent calls the outstanding reservations never sum to more
\* than the ceiling; a call past the reservation step holds a reservation of
\* the ledger, and a call whose reservation was refused has failed with a
\* resource-exhausted error and invoked nothing.
C9_CeilingRespected ==
    /\ Aggregate <= Ceiling
    /\ \A c \in Callers :
           /\ pc[c] \in {"reserved", "exec_failed", "executed"}
                  => reserved_resources[c] \in ledger
           /\ NumInvocations(c) >= 1 => Succeeded(c, "reserve")
           /\ Failed(c, "reserve")
                  => /\ pc[c] = "failed"
                     /\ error[c].type = "ResourceExhaustionError"
                     /\ NumInvocations(c) = 0

C9_Witness ==
    \E c, d \in Callers :
        /\ c # d
        /\ Outstanding(c) # {}
        /\ Failed(d, "reserve")
        /\ SumMem(Outstanding(c)) + Estimate(backend[d], num_qubits[d]) > Ceiling

\* C10 as stated: a call with shots >= 0 whose override names no known kind
\* fails with the unknown-backend error before anything else happened.
C10_UnknownBackendRejected ==
    \A c \in Callers :
        (pc[c] # "idle" /\ shots[c] >= 0 /\ override[c] \notin BackendType \cup {"none"})
            => /\ pc[c] = "failed"
               /\ error[c].type = "ValueError"
               /\ error[c].text = "Unknown backend"
               /\ log[c] = <<>>
               /\ Outstanding(c) = {}

\* C10 amended: the same for a circuit with at least one qubit.
C10_UnknownBackendRejectedNonEmpty ==
    \A c \in Callers :
        (pc[c] # "idle" /\ shots[c] >= 0 /\ num_qubits[c] >= 1
             /\ override[c] \notin BackendType \cup {"none"})
            => /\ pc[c] = "failed"
               /\ error[c].type = "ValueError"
               /\ error[c].text = "Unknown backend"
               /\ log[c] = <<>>
               /\ Outstanding(c) = {}

C10_Witness ==
    \E c \in Callers :
        /\ pc[c] = "failed"
        /\ override[c] = "bogus"
        /\ num_qubits[c] >= 1
        /\ shots[c] >= 0
        /\ error[c].text = "Unknown backend"

\* ------------------------------------------------------------------
\* C11: a call on a circuit without qubits and with shots n >= 0 succeeds
\* with counts {"": n} for n > 0 and {} for n = 0, whatever the override,
\* without routing, feasibility check, reservation or invocation.
C11_EmptyCircuitShortcut ==
    \A c \in Callers :
        (pc[c] # "idle" /\ num_qubits[c] = 0 /\ shots[c] >= 0)
            => /\ pc[c] = "succeeded"
               /\ error[c] = NoError
               /\ result[c].counts.keys = (IF shots[c] > 0 THEN {""} ELSE {})
               /\ result[c].counts.total = shots[c]
               /\ result[c].counts.producer = "none"
               /\ log[c] = <<>>
               /\ reserved_resources[c] = NoTicket
               /\ Outstanding(c) = {}

C11_Witness ==
    \E c \in Callers :
        /\ pc[c] = "succeeded"
        /\ num_qubits[c] = 0
        /\ shots[c] > 0
        /\ result[c].counts.keys = {""}
        /\ result[c].counts.total = shots[c]

\* C12: a call with negative shots fails with the invalid-argument error
\* for every circuit and every override; it returns no result, has done no
\* routing, check, reservation or invocation and holds nothing in the ledger.
C12_NegativeShotsRejected ==
    \A c \in Callers :
        (pc[c] # "idle" /\ shots[c] < 0)
            => /\ pc[c] = "failed"
               /\ error[c].type = "ValueError"
               /\ error[c].text = "shots must be non-negative"
               /\ result[c] = NoResult
               /\ log[c] = <<>>
               /\ reserved_resources[c] = NoTicket
               /\ Outstanding(c) = {}

C12_Witness ==
    \E c \in Callers :
        /\ pc[c] = "failed"
        /\ shots[c] < 0
        /\ num_qubits[c] = 0
        /\ override[c] = "bogus"
        /\ error[c].text = "shots must be non-negative"

\* The first invocation of the call comes after a granted feasibility check
\* and a granted reservation for backend k.
AdmittedFor(c, k) ==
    \E i, j, m \in DOMAIN log[c] :
        /\ i < j /\ j < m
        /\ log[c][i].ev = "check" /\ log[c][i].kind = k /\ log[c][i].ok
        /\ log[c][j].ev = "reserve" /\ log[c][j].kind = k /\ log[c][j].ok
        /\ log[c][m].ev = "invoke"
        /\ \A r \in 1..(m - 1) : log[c][r].ev # "invoke"

\* C13: a call with a known override never asks the router; it invokes a
\* backend only after the feasibility check and the reservation for the
\* forced backend; and when the forced backend failed, the finished call has
\* made exactly one further invocation, the Qiskit fallback.
C13_ForcedOverride ==
    \A c \in Callers :
        (override[c] \in BackendType /\ pc[c] # "idle")
            => /\ ~Succeeded(c, "route") /\ ~Failed(c, "route")
               /\ NumInvocations(c) >= 1 => AdmittedFor(c, override[c])
               /\ (Terminal(c) /\ SelectedFailed(c))
                      => /\ NumInvocations(c) = 2
                         /\ Inv(c)[2].kind = "qiskit"

\* A circuit of n qubits exceeds what any backend can hold.
TooLarge(n) == \A k \in BackendType : Estimate(k, n) > Ceiling

\* C14: a finished call on a circuit that no backend can hold, without or
\* with a known override, has failed with the circuit-too-large error, has
\* invoked nothing and holds no reservation.
C14_TooLargeIsCircuitTooLarge ==
    \A c \in Callers :
        (/\ Terminal(c) /\ shots[c] >= 0 /\ TooLarge(num_qubits[c])
         /\ override[c] \in BackendType \cup {"none"})
            => /\ pc[c] = "failed"
               /\ error[c].type = "CircuitTooLargeError"
               /\ NothingRun(c)

\* The four typed error kinds of the taxonomy.
TypedErrorKinds ==
    {"BackendUnavailableError", "CircuitTooLargeError",
     "ResourceExhaustionError", "SimulationError"}

\* C15: a failed call carries exactly one of the four typed kinds, and the
\* kind of a backend execution failure is not the kind of a router failure.
C15_FourTypedKinds ==
    \A c \in Callers :
        pc[c] = "failed"
            => /\ error[c].type \in TypedErrorKinds
               /\ Failed(c, "route") => error[c].type # "SimulationError"

\* ------------------------------------------------------------------
\* PluginManager (src/ariadne/plugins/manager.py)

\* Members of the enumeration PluginState.
PluginState ==
    {"unloaded", "loading", "loaded", "initializing", "active",
     "deactivating", "inactive", "unloading", "error"}

\* What an operation did: its return value (or the exception it let out),
\* the plugin methods it called, the state and error it left in the plugin
\* instance ("same": no instance was touched), and the registry afterwards.
Outcome(ret, calls, state, err, reg) ==
    [ret |-> ret, calls |-> calls, state |-> state, error |-> err, reg |-> reg]

\* load_plugin(name, config): ctorOk, initOk and activateOk tell whether the
\* constructor, initialize and activate of the plugin class return.  An
\* attribute of PluginState that is no member raises AttributeError inside
\* the try block; when the constructor raises, the handler reads the unbound
\* local `plugin`.
LoadPluginOutcomeMut(reg, name, ctorOk, initOk, activateOk) ==
    IF name \in reg
    THEN Outcome("True", <<"__init__", "initialize">>, "initializing", "same", reg)
    ELSE IF name \notin discovered THEN Outcome("False", <<>>, "same", "same", reg)
    ELSE IF ~ctorOk
    THEN Outcome("UnboundLocalError", <<"__init__">>, "same", "same", reg)
    ELSE IF "loading" \notin PluginState \/ "initializing" \notin PluginState
    THEN Outcome("False", <<"__init__">>, "error", "AttributeError", reg)
    ELSE IF ~initOk
    THEN Outcome("False", <<"__init__", "initialize">>, "error", "initialize", reg)
    ELSE IF "activating" \notin PluginState
    THEN Outcome("False", <<"__init__", "initialize">>, "error", "AttributeError", reg)
    ELSE IF ~activateOk
    THEN Outcome("False", <<"__init__", "initialize", "activate">>, "error",
                 "activate", reg)
    ELSE IF "active" \notin PluginState
    THEN Outcome("False", <<"__init__", "initialize", "activate">>, "error",
                 "AttributeError", reg)
    ELSE Outcome("True", <<"__init__", "initialize", "activate">>, "active",
                 "same", reg \cup {name})

LoadPluginOutcome(reg, name, ctorOk, initOk, activateOk) ==
    IF name \in reg THEN Outcome("True", <<>>, "same", "same", reg)
    ELSE IF name \notin discovered THEN Outcome("False", <<>>, "same", "same", reg)
    ELSE IF ~ctorOk
    THEN Outcome("UnboundLocalError", <<"__init__">>, "same", "same", reg)
    ELSE IF "loading" \notin PluginState \/ "initializing" \notin PluginState
    THEN Outcome("False", <<"__init__">>, "error", "AttributeError", reg)
    ELSE IF ~initOk
    THEN Outcome("False", <<"__init__", "initialize">>, "error", "initialize", reg)
    ELSE IF "activating" \notin PluginState
    THEN Outcome("False", <<"__init__", "initialize">>, "error", "AttributeError", reg)
    ELSE IF ~activateOk
    THEN Outcome("False", <<"__init__", "initialize", "activate">>, "error",
                 "activate", reg)
    ELSE IF "active" \notin PluginState
    THEN Outcome("False", <<"__init__", "initialize", "activate">>, "error",
                 "AttributeError", reg)
    ELSE Outcome("True", <<"__init__", "initialize", "activate">>, "active",
                 "same", reg \cup {name})

\* unload_plugin(name)
UnloadPluginOutcomeMut(reg, name, deactivateOk, cleanupOk) ==
    IF name \notin reg THEN Outcome("True", <<>>, "same", "same", reg)
    ELSE IF "deactivating" \notin PluginState
    THEN Outcome("False", <<>>, "error", "AttributeError", reg)
    ELSE IF ~deactivateOk
    THEN Outcome("False", <<"deactivate">>, "error", "deactivate", reg)
    ELSE IF "unloading" \notin PluginState
    THEN Outcome("False", <<"deactivate">>, "error", "AttributeError", reg)
    ELSE IF ~cleanupOk
    THEN Outcome("False", <<"deactivate", "cleanup">>, "error", "cleanup",
                 reg \ {name})
    ELSE Outcome("True", <<"deactivate", "cleanup">>, "unloaded", "same",
                 reg \ {name})

UnloadPluginOutcome(reg, name, deactivateOk, cleanupOk) ==
    IF name \notin reg THEN Outcome("True", <<>>, "same", "same", reg)
    ELSE IF "deactivating" \notin PluginState
    THEN Outcome("False", <<>>, "error", "AttributeError", reg)
    ELSE IF ~deactivateOk
    THEN Outcome("False", <<"deactivate">>, "error", "deactivate", reg)
    ELSE IF "unloading" \notin PluginState
    THEN Outcome("False", <<"deactivate">>, "error", "AttributeError", reg)
    ELSE IF ~cleanupOk
    THEN Outcome("False", <<"deactivate", "cleanup">>, "error", "cleanup", reg)
    ELSE Outcome("True", <<"deactivate", "cleanup">>, "unloaded", "same",
                 reg \ {name})

\* The manager after an operation on plugin `name` with outcome o.
Apply(op, name, ctorOk, firstOk, secondOk, o) ==
    /\ last_op' = [op |-> op, name |-> name, loaded |-> name \in plugins,
                   ctorOk |-> ctorOk, firstOk |-> firstOk, secondOk |-> secondOk]
    /\ last_ret' = o.ret
    /\ last_calls' = o.calls
    /\ plugins' = o.reg
    /\ plugin_state' =
           IF o.state = "same" THEN plugin_state
           ELSE [plugin_state EXCEPT ![name] = o.state]
    /\ last_error' =
           IF o.error = "same" THEN last_error
           ELSE [last_error EXCEPT ![name] = o.error]
    /\ UNCHANGED discovered

\* __init__: discovery registers the plugin classes it finds.
InitPlugins ==
    /\ InitSimulate
    /\ RouteIdle
    /\ LoaderIdle
    /\ CacheIdle
    /\ discovered \in SUBSET PluginNames
    /\ plugins = {}
    /\ plugin_state = [n \in PluginNames |-> "none"]
    /\ last_error = [n \in PluginNames |-> "none"]
    /\ last_op = NoOp
    /\ last_calls = <<>>
    /\ last_ret = "none"

LoadPlugin(name, ctorOk, initOk, activateOk) ==
    Apply("load_plugin", name, ctorOk, initOk, activateOk,
          LoadPluginOutcome(plugins, name, ctorOk, initOk, activateOk))

UnloadPlugin(name, deactivateOk, cleanupOk) ==
    Apply("unload_plugin", name, TRUE, deactivateOk, cleanupOk,
          UnloadPluginOutcome(plugins, name, deactivateOk, cleanupOk))

\* reload_plugin(name, config): unload when loaded, then load.
ReloadPlugin(name, unloadOk, ctorOk, initOk, activateOk) ==
    LET u == UnloadPluginOutcome(plugins, name, unloadOk, unloadOk)
        l == LoadPluginOutcome(u.reg, name, ctorOk, initOk, activateOk) IN
    IF name \in plugins /\ u.ret # "True"
    THEN Apply("reload_plugin", name, ctorOk, initOk, activateOk, u)
    ELSE Apply("reload_plugin", name, ctorOk, initOk, activateOk,
               [l EXCEPT !.calls = u.calls \o l.calls])

NextPlugins ==
    \/ /\ \E name \in RequestedNames, ctorOk \in BOOLEAN, initOk \in BOOLEAN,
             activateOk \in BOOLEAN :
               LoadPlugin(name, ctorOk, initOk, activateOk)
       /\ UNCHANGED notplugins
    \/ /\ \E name \in RequestedNames, deactivateOk \in BOOLEAN, cleanupOk \in BOOLEAN :
               UnloadPlugin(name, deactivateOk, cleanupOk)
       /\ UNCHANGED notplugins
    \/ /\ \E name \in RequestedNames, unloadOk \in BOOLEAN, ctorOk \in BOOLEAN,
             initOk \in BOOLEAN, activateOk \in BOOLEAN :
               ReloadPlugin(name, unloadOk, ctorOk, initOk, activateOk)
       /\ UNCHANGED notplugins

SpecPlugins == InitPlugins /\ [][NextPlugins]_vars

\* The registry the operations are applied to, given as input: any set of
\* discovered plugins, each stored in state ACTIVE as lines 369-374 store a
\* loaded plugin.
InitLoadedPlugins ==
    /\ InitSimulate
    /\ RouteIdle
    /\ LoaderIdle
    /\ CacheIdle
    /\ discovered \in SUBSET PluginNames
    /\ plugins \in SUBSET discovered
    /\ plugin_state =
           [n \in PluginNames |-> IF n \in plugins THEN "active" ELSE "none"]
    /\ last_error = [n \in PluginNames |-> "none"]
    /\ last_op = NoOp
    /\ last_calls = <<>>
    /\ last_ret = "none"

SpecLoadedPlugins == InitLoadedPlugins /\ [][NextPlugins]_vars

\* ------------------------------------------------------------------
\* Cache (src/ariadne/performance/cache.py)

\* Keys handed to the cache directly.
CacheKeys == {[name |-> "k1"], [name |-> "k2"], [name |-> "k3"]}

\* Values handed to the cache directly, by the length of their pickle; the
\* last one is by itself larger than the memory limit.
CacheValues == {[bytes |-> 1], [bytes |-> 2], [bytes |-> MaxMemoryBytes + 1]}

\* len(pickle.dumps(value)), in the unit max_memory_bytes is counted in.
SizeOf(value) == IF "bytes" \in DOMAIN value THEN value.bytes ELSE 1

\* ttl arguments: None or a number of ticks.
Ttls == {NoTtl, {0}}

\* Return values of delete.
True == [bool |-> TRUE]

False == [bool |-> FALSE]

\* CacheEntry; last_accessed and access_count are written by touch only
\* and read nowhere, last_call.touched records the call of touch.
CacheEntry(key, value, created_at, ttl, size) ==
    [key |-> key, value |-> value, created_at |-> created_at, ttl |-> ttl,
     size |-> size]

\* CacheEntry.is_expired at time now.
is_expiredMut(entry, now) == FALSE

is_expired(entry, now) == \E t \in entry.ttl : now - entry.created_at > t

\* key in self._cache, and self._cache[key].
HasKey(cache, key) == \E i \in 1..Len(cache) : cache[i].key = key

EntryOf(cache, key) == cache[CHOOSE i \in 1..Len(cache) : cache[i].key = key]

\* del self._cache[key]
DelKey(cache, key) == SelectSeq(cache, LAMBDA e : e.key # key)

\* self._cache[key] = entry: a stored key keeps its place in the dict.
PutEntry(cache, entry) ==
    IF HasKey(cache, entry.key)
    THEN [i \in 1..Len(cache) |->
              IF cache[i].key = entry.key THEN entry ELSE cache[i]]
    ELSE Append(cache, entry)

\* list.remove(x) guarded by `x in list`: drops the first occurrence.
RECURSIVE ListRemove(_, _)
ListRemove(list, x) ==
    IF list = <<>> THEN <<>>
    ELSE IF Head(list) = x THEN Tail(list)
    ELSE <<Head(list)>> \o ListRemove(Tail(list), x)

\* MemoryCacheBackend.delete
BackendDelete(self, key) ==
    IF ~HasKey(self.cache, key) THEN [self |-> self, ret |-> False]
    ELSE [self |->
              [self EXCEPT
                  !.current_memory_bytes = @ - EntryOf(self.cache, key).size,
                  !.cache = DelKey(@, key),
                  !.access_order = ListRemove(@, key)],
          ret |-> True]

\* MemoryCacheBackend.get at time now.
BackendGet(self, key, now) ==
    IF ~HasKey(self.cache, key)
    THEN [self |-> self, ret |-> None, expired |-> FALSE, touched |-> FALSE]
    ELSE IF is_expired(EntryOf(self.cache, key), now)
    THEN [self |-> BackendDelete(self, key).self, ret |-> None,
          expired |-> TRUE, touched |-> FALSE]
    ELSE [self |-> [self EXCEPT !.access_order = Append(ListRemove(@, key), key)],
          ret |-> EntryOf(self.cache, key).value,
          expired |-> FALSE, touched |-> TRUE]

\* MemoryCacheBackend._evict_if_needed
RECURSIVE EvictIfNeededMut(_, _)
EvictIfNeededMut(self, new_entry_size) ==
    IF /\ \/ self.current_memory_bytes + new_entry_size > self.max_memory_bytes
          \/ Len(self.cache) > self.max_size
       /\ self.cache # <<>>
    THEN LET lru_key == Head(self.access_order)
             popped == [self EXCEPT !.access_order = Tail(@)] IN
         IF HasKey(self.cache, lru_key)
         THEN EvictIfNeededMut(
                  [popped EXCEPT
                      !.current_memory_bytes = @ - EntryOf(self.cache, lru_key).size,
                      !.cache = DelKey(@, lru_key)],
                  new_entry_size)
         ELSE EvictIfNeededMut(popped, new_entry_size)
    ELSE self

RECURSIVE EvictIfNeeded(_, _)
EvictIfNeeded(self, new_entry_size) ==
    IF /\ \/ self.current_memory_bytes + new_entry_size > self.max_memory_bytes
          \/ Len(self.cache) >= self.max_size
       /\ self.cache # <<>>
    THEN LET lru_key == Head(self.access_order)
             popped == [self EXCEPT !.access_order = Tail(@)] IN
         IF HasKey(self.cache, lru_key)
         THEN EvictIfNeeded(
                  [popped EXCEPT
                      !.current_memory_bytes = @ - EntryOf(self.cache, lru_key).size,
                      !.cache = DelKey(@, lru_key)],
                  new_entry_size)
         ELSE EvictIfNeeded(popped, new_entry_size)
    ELSE self

\* MemoryCacheBackend.set at time now.
BackendSet(self, key, value, ttl, now) ==
    LET size == SizeOf(value)
        evicted == EvictIfNeeded(self, size)
        entry == CacheEntry(key, value, now, ttl, size)
        updated ==
            IF HasKey(evicted.cache, key)
            THEN [evicted EXCEPT
                     !.current_memory_bytes = @ - EntryOf(evicted.cache, key).size,
                     !.access_order = ListRemove(@, key)]
            ELSE evicted IN
    [updated EXCEPT
        !.cache = PutEntry(@, entry),
        !.access_order = Append(@, key),
        !.current_memory_bytes = @ + size]

\* MemoryCacheBackend.clear
BackendClear(self) ==
    [self EXCEPT !.cache = <<>>, !.access_order = <<>>,
                 !.current_memory_bytes = 0]

\* IntelligentCache.set: the default ttl stands in for None.
EffectiveTtl(ttl) == IF ttl = NoTtl THEN default_ttl ELSE ttl

\* A call: its arguments, the key it used, what it returned, whether the
\* backend found the entry expired or touched it, and whether a wrapper ran
\* the wrapped function.
Call(op, args, key, ret, expired, touched, executed) ==
    [op |-> op, args |-> args, key |-> key, ret |-> ret,
     expired |-> expired, touched |-> touched, executed |-> executed]

\* IntelligentCache(MemoryCacheBackend(max_size, max_memory_mb), default_ttl)
InitCache ==
    /\ InitSimulate
    /\ RouteIdle
    /\ LoaderIdle
    /\ PluginsIdle
    /\ \E max_size \in 1..MaxEntries :
           memory_cache = MemoryCacheBackend(max_size, MaxMemoryBytes)
    /\ default_ttl \in {NoTtl, {1}}
    /\ clock = 0
    /\ last_call = NoCall

\* IntelligentCache.get
Get(key) ==
    LET r == BackendGet(memory_cache, key, clock) IN
    /\ memory_cache' = r.self
    /\ last_call' = Call("get", None, key, r.ret, r.expired, r.touched, FALSE)
    /\ UNCHANGED <<default_ttl, clock>>

\* IntelligentCache.set
Set(key, value, ttl) ==
    /\ memory_cache' = BackendSet(memory_cache, key, value, EffectiveTtl(ttl), clock)
    /\ last_call' = Call("set", None, key, None, FALSE, FALSE, FALSE)
    /\ UNCHANGED <<default_ttl, clock>>

\* IntelligentCache.delete
Delete(key) ==
    LET r == BackendDelete(memory_cache, key) IN
    /\ memory_cache' = r.self
    /\ last_call' = Call("delete", None, key, r.ret, FALSE, FALSE, FALSE)
    /\ UNCHANGED <<default_ttl, clock>>

\* IntelligentCache.clear
Clear ==
    /\ memory_cache' = BackendClear(memory_cache)
    /\ last_call' = Call("clear", None, None, None, FALSE, FALSE, FALSE)
    /\ UNCHANGED <<default_ttl, clock>>

\* time.time() moves on between two operations.
Tick ==
    /\ clock < MaxTime
    /\ clock' = clock + 1
    /\ last_call' = Call("tick", None, None, None, FALSE, FALSE, FALSE)
    /\ UNCHANGED <<memory_cache, default_ttl>>

NextCache ==
    \/ /\ \E key \in CacheKeys : Get(key)
       /\ UNCHANGED notcache
    \/ /\ \E key \in CacheKeys, value \in CacheValues, ttl \in Ttls :
               Set(key, value, ttl)
       /\ UNCHANGED notcache
    \/ /\ \E key \in CacheKeys : Delete(key)
       /\ UNCHANGED notcache
    \/ /\ Clear
       /\ UNCHANGED notcache
    \/ /\ Tick
       /\ UNCHANGED notcache

SpecCache == InitCache /\ [][NextCache]_vars

\* ------------------------------------------------------------------
\* Memoizer

\* Argument tuples of the memoized function and the values it returns.
MemoArgs == {<<"x">>, <<"y">>}

MemoResults == {None, [bytes |-> 1], [bytes |-> 2]}

\* Memoizer._generate_cache_key: the digest of the function and its
\* arguments; different calls have different digests.
GenerateCacheKey(func, args) ==
    [sha256 |-> [function |-> func, args |-> args]]

\* The wrapper of Memoizer.memoize(ttl) around a function that returns
\* `returned` when it is executed.
MemoizedCall(args, returned, ttl) ==
    LET cache_key == GenerateCacheKey("f", args)
        cached == BackendGet(memory_cache, cache_key, clock) IN
    /\ IF cached.ret # None
       THEN /\ memory_cache' = cached.self
            /\ last_call' = Call("memoize", args, cache_key, cached.ret,
                                 cached.expired, cached.touched, FALSE)
       ELSE /\ memory_cache' =
                   BackendSet(cached.self, cache_key, returned,
                              EffectiveTtl(ttl), clock)
            /\ last_call' = Call("memoize", args, cache_key, returned,
                                 cached.expired, cached.touched, TRUE)
    /\ UNCHANGED <<default_ttl, clock>>

NextMemo ==
    \/ /\ \E args \in MemoArgs, returned \in MemoResults, ttl \in Ttls :
               MemoizedCall(args, returned, ttl)
       /\ UNCHANGED notcache
    \/ /\ Tick
       /\ UNCHANGED notcache

SpecMemo == InitCache /\ [][NextMemo]_vars

\* ------------------------------------------------------------------
\* SimulationCache and cached_simulate

\* Two circuit objects with the same registers and instructions, under
\* different names.
SimCircuits ==
    {[name |-> n, num_qubits |-> 2, num_clbits |-> 0, data |-> <<"h", "cx">>] :
         n \in {"bell", "copy"}}

SimShots == {1, 2}

SimBackends == {"stim", "qiskit"}

\* metadata["backend_health"] of a result, "absent" for metadata without
\* that key.
BackendHealth == {"absent", "poor"}

\* CircuitHasher.hash_circuit: the digest of the registers and the
\* instructions; the name of the circuit is no part of it.
hash_circuit(c) ==
    [sha256 |->
         [num_qubits |-> c.num_qubits, num_clbits |-> c.num_clbits,
          instructions |-> c.data]]

\* CircuitHasher.hash_simulation_params: the digest of the circuit hash,
\* the shots and the backend name.
hash_simulation_paramsMut(c, s, b) ==
    [sha256 |-> [circuit_hash |-> hash_circuit(c), backend |-> b]]

hash_simulation_params(c, s, b) ==
    [sha256 |-> [circuit_hash |-> hash_circuit(c), shots |-> s, backend |-> b]]

\* The SimulationResult the wrapped function returns for a call: what
\* was simulated, and the health the backend reported.
Simulated(c, s, b, health) ==
    [simulated |-> <<c.data, c.num_qubits, c.num_clbits>>, shots |-> s,
     backend_used |-> b, backend_health |-> health]

\* SimulationCache._backend_health_rule
backend_health_rule(key, value) ==
    value.backend_health \notin {"absent", "healthy", "good"}

\* The characters of a hexdigest, and the spelling of the backend names.
HexDigits ==
    {"0", "1", "2", "3", "4", "5", "6", "7", "8", "9",
     "a", "b", "c", "d", "e", "f"}

Spelling ==
    [stim |-> <<"s", "t", "i", "m">>,
     qiskit |-> <<"q", "i", "s", "k", "i", "t">>]

\* backend_rule of invalidate_backend: `backend in key`, the name as a
\* substring of the hexdigest. A name with a character that is no
\* hexadecimal digit occurs in no digest; every name here has one.
backend_rule(b, key) ==
    \A i \in 1..Len(Spelling[b]) : Spelling[b][i] \in HexDigits

\* MemoryCacheBackend.keys
BackendKeys(self) == [i \in 1..Len(self.cache) |-> self.cache[i].key]

\* IntelligentCache.invalidate_by_rule, first loop: get every key and note
\* the keys a rule condemns.
RECURSIVE ScanKeys(_, _, _, _, _)
ScanKeys(self, keys, b, now, keys_to_delete) ==
    IF keys = <<>> THEN [self |-> self, keys_to_delete |-> keys_to_delete]
    ELSE LET key == Head(keys)
             got == BackendGet(self, key, now)
             condemned ==
                 /\ got.ret # None
                 /\ \/ backend_health_rule(key, got.ret)
                    \/ backend_rule(b, key) IN
         ScanKeys(got.self, Tail(keys), b, now,
                  IF condemned THEN Append(keys_to_delete, key)
                  ELSE keys_to_delete)

\* IntelligentCache.invalidate_by_rule, second loop: delete and count.
RECURSIVE DeleteKeys(_, _, _)
DeleteKeys(self, keys, invalidated_count) ==
    IF keys = <<>> THEN [self |-> self, count |-> invalidated_count]
    ELSE LET deleted == BackendDelete(self, Head(keys)) IN
         DeleteKeys(deleted.self, Tail(keys),
                    IF deleted.ret = True THEN invalidated_count + 1
                    ELSE invalidated_count)

\* The wrapper of cached_simulate(ttl) around a function whose result
\* reports `health`.
CachedSimulate(c, s, b, ttl, health) ==
    LET cache_key == hash_simulation_params(c, s, b)
        cached == BackendGet(memory_cache, cache_key, clock)
        simulated == Simulated(c, s, b, health) IN
    /\ IF cached.ret # None
       THEN /\ memory_cache' = cached.self
            /\ last_call' = Call("cached_simulate", <<c, s, b>>, cache_key,
                                 cached.ret, cached.expired, cached.touched,
                                 FALSE)
       ELSE /\ memory_cache' =
                   BackendSet(cached.self, cache_key, simulated,
                              EffectiveTtl(ttl), clock)
            /\ last_call' = Call("cached_simulate", <<c, s, b>>, cache_key,
                                 simulated, cached.expired, cached.touched,
                                 TRUE)
    /\ UNCHANGED <<default_ttl, clock>>

\* SimulationCache.invalidate_backend
InvalidateBackend(b) ==
    LET scanned == ScanKeys(memory_cache, BackendKeys(memory_cache), b,
                            clock, <<>>)
        deleted == DeleteKeys(scanned.self, scanned.keys_to_delete, 0) IN
    /\ memory_cache' = deleted.self
    /\ last_call' = Call("invalidate_backend", <<b>>, None,
                         [count |-> deleted.count], FALSE, FALSE, FALSE)
    /\ UNCHANGED <<default_ttl, clock>>

\* get_simulation_cache(): SimulationCache() over IntelligentCache() over
\* MemoryCacheBackend(), no default ttl.
InitSimCache ==
    /\ InitSimulate
    /\ RouteIdle
    /\ LoaderIdle
    /\ PluginsIdle
    /\ memory_cache = MemoryCacheBackend(MaxEntries, MaxMemoryBytes)
    /\ default_ttl = NoTtl
    /\ clock = 0
    /\ last_call = NoCall

NextSimCache ==
    \/ /\ \E c \in SimCircuits, s \in SimShots, b \in SimBackends,
             ttl \in Ttls, health \in BackendHealth :
               CachedSimulate(c, s, b, ttl, health)
       /\ UNCHANGED notcache
    \/ /\ \E b \in SimBackends : InvalidateBackend(b)
       /\ UNCHANGED notcache
    \/ /\ Tick
       /\ UNCHANGED notcache

SpecSimCache == InitSimCache /\ [][NextSimCache]_vars

\* ------------------------------------------------------------------
\* Order and termination of the steps of a call

\* Event i of the call of c is a granted event of one of the kinds evs.
Granted(c, i, evs) == log[c][i].ev \in evs /\ log[c][i].ok

\* C28: in a call on a circuit with at least one qubit every feasibility
\* check of the execution controller follows the selection of the backend
\* (by the router or by the override), every reservation follows a granted
\* check, every invocation follows a granted reservation of the same call,
\* and a release follows every invocation of the call.
C28_StepOrder ==
    \A c \in Callers :
        num_qubits[c] >= 1
            => \A m \in DOMAIN log[c] :
                   /\ log[c][m].ev = "check"
                          => \E i \in 1..(m - 1) : Granted(c, i, {"route", "precheck"})
                   /\ log[c][m].ev = "reserve"
                          => \E i \in 1..(m - 1) : Granted(c, i, {"check"})
                   /\ log[c][m].ev = "invoke"
                          => \E i \in 1..(m - 1) : Granted(c, i, {"reserve"})
                   /\ log[c][m].ev = "release"
                          => \A i \in DOMAIN log[c] :
                                 log[c][i].ev = "invoke" => i < m

C28_Witness ==
    \E c \in Callers :
        /\ override[c] \in BackendType
        /\ pc[c] = "succeeded"
        /\ NumInvocations(c) = 2
        /\ Succeeded(c, "release")

\* The controller has no dispatcher for the backend the decision of c names.
NoDispatcher(c) ==
    Recommended(c) \in BackendType \ DispatchedKinds

\* C29: a call whose decision names a kind without dispatcher and whose
\* first Qiskit invocation succeeded returns backend_used Qiskit, a warning
\* that names the kind selected, and a fallback_reason.
C29_NoDispatcherRecovered ==
    \A c \in Callers :
        (/\ NoDispatcher(c)
         /\ pc[c] = "succeeded"
         /\ NumInvocations(c) = 1)
            => /\ Inv(c)[1].kind = "qiskit"
               /\ result[c].backend_used = "qiskit"
               /\ \E w \in result[c].warnings : w[2] = Recommended(c)
               /\ result[c].fallback_reason # NoReason

\* A finished call stays finished, a started call is not started again, and
\* a call that has left the selection of its backend does not come back to it.
NoRestart ==
    \A c \in Callers :
        /\ Terminal(c) => pc'[c] = pc[c]
        /\ pc[c] # "idle" => pc'[c] # "idle"
        /\ pc[c] \notin {"idle", "routing", "forced_check"}
               => pc'[c] \notin {"routing", "forced_check"}

\* No call is under way.
Quiescent == \A c \in Callers : pc[c] = "idle" \/ Terminal(c)

\* C30: from some point on every call that was started has ended, succeeded
\* or failed; a finished call stays in its terminal state and no call
\* restarts routing.
C30_Terminates ==
    /\ <>[]Quiescent
    /\ [][NoRestart]_vars

C30_Witness ==
    \E c, d \in Callers :
        /\ pc[c] = "failed" /\ NumInvocations(c) >= 2
        /\ pc[d] = "succeeded" /\ LastIsFallback(d)

\* ------------------------------------------------------------------
\* Properties of the routing call

Analysed == rpc \in {"analysed", "decided", "failed"} /\ features # NoFeatures

\* Every classified operation of the circuit is in the Clifford set.
AllClifford(ops) ==
    \A i \in DOMAIN ops : ops[i] \notin Annotations => ops[i] \in CliffordGates

InsertAt(ops, i, a) == SubSeq(ops, 1, i) \o <<a>> \o SubSeq(ops, i + 1, Len(ops))

RemoveAt(ops, i) == SubSeq(ops, 1, i - 1) \o SubSeq(ops, i + 1, Len(ops))

\* C16: the extracted is_clifford is true exactly when every operation other
\* than measurements and barriers is in the Clifford set, and it is the same
\* for the circuit with a measurement or barrier inserted anywhere, with one
\* of them removed, and with all of them removed.
C16_CliffordClassification ==
    Analysed
        => /\ features.is_clifford = AllClifford(circuit)
           /\ \A i \in 0..Len(circuit), a \in Annotations :
                  AnalyzeCircuit(InsertAt(circuit, i, a), circuit_qubits).is_clifford
                      = features.is_clifford
           /\ \A i \in DOMAIN circuit :
                  circuit[i] \in Annotations
                      => AnalyzeCircuit(RemoveAt(circuit, i), circuit_qubits).is_clifford
                             = features.is_clifford
           /\ AnalyzeCircuit(Qualifying(circuit), circuit_qubits).is_clifford
                  = features.is_clifford

C16_Witness ==
    /\ Analysed
    /\ features.is_clifford
    /\ \E i, j \in DOMAIN circuit :
           circuit[i] \in Annotations /\ circuit[j] \in CliffordGates

\* The decision of the call was produced by the scored router.
Routed == rpc = "decided" /\ ~decision.forced

C18_DecisionWellFormed ==
    rpc = "decided"
        => /\ 0 <= decision.confidence_score[1]
           /\ decision.confidence_score[1] <= decision.confidence_score[2]
           /\ decision.confidence_score[2] > 0
           /\ \A i, j \in DOMAIN decision.alternatives :
                  i < j => decision.alternatives[i].score
                               >= decision.alternatives[j].score
           /\ decision.forced
                  => /\ decision.confidence_score = <<1, 1>>
                     /\ decision.alternatives = <<>>

C18_Witness ==
    /\ rpc = "decided"
    /\ decision.forced
    /\ decision.recommended_backend = "stim"

\* C19: when the gate disqualifies every specialised backend the scored
\* router recommends the general backend with confidence 0 and the reason
\* "no specialized backend qualified"; a specialised backend the gate
\* disqualified is never recommended.
C19_GeneralWhenNoneQualifies ==
    Routed
        => /\ (\A k \in SpecialisedKinds :
                   ~available[k] \/ ~CapacityOk(k, features))
                  => /\ decision.recommended_backend = GeneralBackend
                     /\ decision.confidence_score = <<0, 1>>
                     /\ "no specialized backend qualified" \in decision.reason
           /\ \A k \in SpecialisedKinds :
                  (~available[k] \/ ~CapacityOk(k, features))
                      => decision.recommended_backend # k

C19_Witness ==
    /\ Routed
    /\ decision.recommended_backend = GeneralBackend
    /\ \E k \in SpecialisedKinds : available[k] /\ ~CapacityOk(k, features)
    /\ \E k \in SpecialisedKinds : ~available[k] /\ CapacityOk(k, features)

\* ------------------------------------------------------------------
\* Properties of the configuration loader

\* Source i was merged by the last load.
Loaded(i) == \E h \in DOMAIN load_history : load_history[h] = sources[i].name

\* C20: after a load, a key that two loaded sources give a scalar value has
\* the value of the source with the higher priority number.
C20_HigherPriorityWins ==
    lerr = "none"
        => \A i, j \in DOMAIN sources, k \in Keys :
               (/\ Loaded(i) /\ Loaded(j)
                /\ sources[i].priority > sources[j].priority
                /\ sources[i].data[k] # Absent /\ ~sources[i].data[k].isdict
                /\ sources[j].data[k] # Absent /\ ~sources[j].data[k].isdict)
                   => loaded_config[k] = sources[i].data[k]
\* ------------------------------------------------------------------
\* Properties of the plugin manager

\* C21: load_plugin on a discovered plugin that was not loaded and whose
\* constructor, initialize and activate succeed returns True, has called
\* initialize and then activate once each, leaves the plugin ACTIVE and in
\* the registry.
C21_LoadPluginActivates ==
    (/\ last_op.op = "load_plugin"
     /\ last_op.name \in discovered
     /\ ~last_op.loaded
     /\ last_op.ctorOk /\ last_op.firstOk /\ last_op.secondOk)
        => /\ last_ret = "True"
           /\ last_calls = <<"__init__", "initialize", "activate">>
           /\ plugin_state[last_op.name] = "active"
           /\ last_op.name \in plugins

\* ------------------------------------------------------------------
\* Cache: bounds, accounting and expiry

\* Sum of the sizes of the entries of a dict of entries.
RECURSIVE SumSizes(_)
SumSizes(cache) ==
    IF cache = <<>> THEN 0 ELSE Head(cache).size + SumSizes(Tail(cache))

\* The time to live of an entry has run out at time now.
Elapsed(entry, now) == \E t \in entry.ttl : entry.created_at + t < now

\* The last operation was op on key.
Called(op, key) == last_call.op = op /\ last_call.key = key

\* C23: a MemoryCacheBackend made with max_size >= 1 never holds more
\* than max_size entries, whatever get, set, delete and clear did to it.
C23_SizeBound ==
    memory_cache.max_size >= 1 =>
        Len(memory_cache.cache) <= memory_cache.max_size

\* A set has just filled the largest backend up to max_size.
C23_Witness ==
    /\ last_call.op = "set"
    /\ memory_cache.max_size = MaxEntries
    /\ Len(memory_cache.cache) = memory_cache.max_size
    /\ clock > 0
    /\ \A i \in 1..Len(memory_cache.cache) :
           memory_cache.cache[i].created_at = clock

\* C24: the tracked memory use is the sum of the sizes of the stored
\* entries and never exceeds max_memory_bytes, also after a set of a value
\* that is by itself larger than max_memory_bytes.
C24_MemoryAccounting ==
    /\ memory_cache.current_memory_bytes = SumSizes(memory_cache.cache)
    /\ memory_cache.current_memory_bytes <= memory_cache.max_memory_bytes

\* C27: a get of an entry whose time to live has run out returns None,
\* removes the entry and its size from the accounting and touches nothing;
\* a get of an entry without a time to live returns its value.
C27_ExpiredGet ==
    [][\A key \in CacheKeys :
           (last_call'.op = "get" /\ last_call'.key = key
                /\ HasKey(memory_cache.cache, key)) =>
               LET entry == EntryOf(memory_cache.cache, key) IN
               /\ Elapsed(entry, clock) =>
                      /\ last_call'.ret = None
                      /\ ~last_call'.touched
                      /\ ~HasKey(memory_cache'.cache, key)
                      /\ key \notin {memory_cache'.access_order[i] :
                                        i \in 1..Len(memory_cache'.access_order)}
                      /\ memory_cache'.current_memory_bytes =
                             memory_cache.current_memory_bytes - entry.size
               /\ entry.ttl = NoTtl =>
                      /\ last_call'.ret = entry.value
                      /\ HasKey(memory_cache'.cache, key)]_vars

\* A get has just found its entry expired.
C27_Witness ==
    /\ last_call.op = "get"
    /\ last_call.expired
    /\ last_call.ret = None
    /\ ~HasKey(memory_cache.cache, last_call.key)

\* ------------------------------------------------------------------
\* Memoizer: one execution per argument tuple

\* C25: a call of a memoized function whose arguments have a stored entry
\* that is not expired does not execute the function and returns the
\* stored result, whatever that result is (None included).
C25_MemoizedOnce ==
    [][\A args \in MemoArgs :
           LET key == GenerateCacheKey("f", args) IN
           (last_call'.op = "memoize" /\ last_call'.args = args
                /\ HasKey(memory_cache.cache, key)
                /\ ~Elapsed(EntryOf(memory_cache.cache, key), clock)) =>
               /\ ~last_call'.executed
               /\ last_call'.ret = EntryOf(memory_cache.cache, key).value]_vars

\* ------------------------------------------------------------------
\* SimulationCache: hits and invalidation

\* value is the result of simulating a circuit equal to c with s shots on
\* backend b.
ResultOf(value, c, s, b) ==
    /\ value # None
    /\ value.simulated = <<c.data, c.num_qubits, c.num_clbits>>
    /\ value.shots = s
    /\ value.backend_used = b

\* C26: a call of a function wrapped by cached_simulate, made while the
\* result of an earlier call with an equal circuit, the same shots and the
\* same backend is stored and not expired, returns that result without
\* executing the function; and a result a call receives from the cache is
\* one of a call with its circuit, its shots and its backend.
C26_CachedSimulate ==
    [][\A c \in SimCircuits, s \in SimShots, b \in SimBackends :
           (last_call'.op = "cached_simulate" /\ last_call'.args = <<c, s, b>>) =>
               /\ \A i \in 1..Len(memory_cache.cache) :
                      LET entry == memory_cache.cache[i] IN
                      (ResultOf(entry.value, c, s, b) /\ ~Elapsed(entry, clock)) =>
                          /\ ~last_call'.executed
                          /\ last_call'.ret = entry.value
               /\ ~last_call'.executed => ResultOf(last_call'.ret, c, s, b)]_vars

\* A call with the copy of a circuit has just been answered from the
\* cache, at a later time than the result was stored.
C26_Witness ==
    /\ last_call.op = "cached_simulate"
    /\ ~last_call.executed
    /\ last_call.args[1].name = "copy"
    /\ ResultOf(last_call.ret, last_call.args[1], last_call.args[2],
                last_call.args[3])
    /\ HasKey(memory_cache.cache, last_call.key)
    /\ EntryOf(memory_cache.cache, last_call.key).created_at < clock
    /\ Len(memory_cache.cache) = MaxEntries

\* C22: invalidate_backend(b) leaves no entry that was stored with backend
\* b, and returns the number of live entries it removed.
C22_InvalidateBackend ==
    [][\A b \in SimBackends :
           (last_call'.op = "invalidate_backend" /\ last_call'.args = <<b>>) =>
               /\ \A c \in SimCircuits, s \in SimShots :
                      ~HasKey(memory_cache'.cache, hash_simulation_params(c, s, b))
               /\ last_call'.ret.count =
                      Cardinality({i \in 1..Len(memory_cache.cache) :
                          /\ ~Elapsed(memory_cache.cache[i], clock)
                          /\ ~HasKey(memory_cache'.cache,
                                     memory_cache.cache[i].key)})]_vars

\* ------------------------------------------------------------------
\* Plugin manager: failures, frame and lifecycle

\* C31: load_plugin lets no exception out; when the constructor,
\* initialize or activate of a discovered, not loaded plugin raises, it
\* returns False and leaves the registry of loaded plugins as it was.
C31_LoadPluginNeverRaises ==
    [][last_op'.op = "load_plugin" =>
           /\ last_ret' \in {"True", "False"}
           /\ (/\ last_op'.name \in discovered
               /\ ~last_op'.loaded
               /\ ~(last_op'.ctorOk /\ last_op'.firstOk /\ last_op'.secondOk)) =>
                  /\ last_ret' = "False"
                  /\ plugins' = plugins]_vars

\* C32: unload_plugin on a loaded plugin whose deactivate and cleanup
\* return gives True, leaves the plugin UNLOADED and out of the registry;
\* when either raises it gives False, leaves the plugin in ERROR with the
\* error recorded and still in the registry; on a name that is not loaded
\* it gives True and changes nothing.
C32_UnloadPlugin ==
    [][last_op'.op = "unload_plugin" =>
           LET n == last_op'.name IN
           /\ (n \in plugins /\ last_op'.firstOk /\ last_op'.secondOk) =>
                  /\ last_ret' = "True"
                  /\ plugin_state'[n] = "unloaded"
                  /\ plugins' = plugins \ {n}
           /\ (n \in plugins /\ ~(last_op'.firstOk /\ last_op'.secondOk)) =>
                  /\ last_ret' = "False"
                  /\ plugin_state'[n] = "error"
                  /\ last_error'[n] =
                         IF last_op'.firstOk THEN "cleanup" ELSE "deactivate"
                  /\ plugins' = plugins
           /\ n \notin plugins =>
                  /\ last_ret' = "True"
                  /\ last_calls' = <<>>
                  /\ UNCHANGED <<plugins, plugin_state, last_error>>]_vars

\* A loaded plugin has just been unloaded, and another one has failed to
\* unload before.
C32_Witness ==
    /\ last_op.op = "unload_plugin"
    /\ last_op.loaded
    /\ last_ret = "True"
    /\ plugin_state[last_op.name] = "unloaded"
    /\ last_op.name \notin plugins
    /\ \E n \in plugins : plugin_state[n] = "error"

\* C33: load_plugin on a loaded name returns True and calls nothing, on a
\* name that was not discovered it returns False; either way the registry
\* and the state of every plugin stay as they were.
C33_LoadPluginFrame ==
    [][last_op'.op = "load_plugin" =>
           LET n == last_op'.name IN
           /\ n \in plugins =>
                  /\ last_ret' = "True"
                  /\ last_calls' = <<>>
                  /\ UNCHANGED <<plugins, plugin_state, last_error>>
           /\ (n \notin plugins /\ n \notin discovered) =>
                  /\ last_ret' = "False"
                  /\ last_calls' = <<>>
                  /\ UNCHANGED <<plugins, plugin_state, last_error>>]_vars

\* load_plugin has just been called on a loaded name.
C33_Witness ==
    /\ last_op.op = "load_plugin"
    /\ last_op.loaded
    /\ last_op.name \in plugins
    /\ last_ret = "True"
    /\ last_calls = <<>>

\* Positions of a method in the calls of the last operation.
CallsOf(method) == {i \in 1..Len(last_calls) : last_calls[i] = method}

\* Every call of `later` comes after a call of `earlier`.
Preceded(later, earlier) ==
    \A i \in CallsOf(later) : \E j \in CallsOf(earlier) : j < i

\* C34: every plugin in the registry is ACTIVE or in ERROR; activate is
\* called only after initialize, cleanup only after deactivate; and a load
\* that failed after initialize ran has called cleanup on that instance.
C34_Lifecycle ==
    /\ \A n \in plugins : plugin_state[n] \in {"active", "error"}
    /\ Preceded("activate", "initialize")
    /\ Preceded("cleanup", "deactivate")
    /\ (last_op.op \in {"load_plugin", "reload_plugin"} /\ last_ret # "True") =>
           \A i \in CallsOf("initialize") : \E j \in CallsOf("cleanup") : i < j

====
